---- MODULE Spec2Model ----
(***************************************************************************)
(* GhostComm: the Base32768 bit-pack codec, the checksum, the volume       *)
(* chunker, the volume extractor and the receiving view's ChunkSet, as     *)
(* they are written in the TypeScript/JavaScript sources.                  *)
(*                                                                         *)
(* Strings are sequences of UTF-16 code units (naturals below 2^16), byte  *)
(* buffers are sequences of naturals below 256.  A JavaScript int32 is a   *)
(* pair <<hi, lo>> of 16-bit halves of its two's complement bit pattern,   *)
(* so that every shift, or, and, add and subtract wraps exactly as the     *)
(* 32-bit operators of the language do.                                    *)
(*                                                                         *)
(* The repository holds several copies of the same pipeline.  A copy is    *)
(* named by a variant:                                                     *)
(*   "ts"  services/chunker.ts + services/encoding (service-worker.js)     *)
(*         + components/DecodingView (unnamed/part_000)                    *)
(*   "js"  index.js, first bundle (lines 1-373)                            *)
(*   "tsx" index.tsx                                                       *)
(*   "js2" index.js, second bundle (lines 376-978), sender only            *)
(* and an alphabet by "cjk" (START_CHAR arithmetic), "v1" (index.js:17)    *)
(* or "v2" (index.js:389).                                                 *)
(***************************************************************************)
EXTENDS Integers, Sequences, FiniteSets, TLC

(***************************************************************************)
(* 32-bit integer arithmetic on 16-bit halves                              *)
(***************************************************************************)
H16 == 2^16

H15 == 2^15

Min(a, b) == IF a < b THEN a ELSE b

\* a & b on naturals, bit by bit; against the masks 0xFF and 0x7FFF the
\* result is a modulo 2^8 and 2^15
RECURSIVE BitAnd(_, _)
BitAnd(a, b) ==
  IF a = 0 \/ b = 0 THEN 0
  ELSE IF b = 255 \/ b = 32767 THEN a % (b + 1)
  ELSE (IF a % 2 = 1 /\ b % 2 = 1 THEN 1 ELSE 0) + 2 * BitAnd(a \div 2, b \div 2)

\* a | b on naturals, bit by bit; operands with no bit in common add
RECURSIVE BitOr(_, _)
BitOr(a, b) ==
  IF a = 0 THEN b
  ELSE IF b = 0 THEN a
  ELSE IF (b < 256 /\ a % 256 = 0) \/ (b < H15 /\ a % H15 = 0) THEN a + b
  ELSE (IF a % 2 = 1 \/ b % 2 = 1 THEN 1 ELSE 0) + 2 * BitOr(a \div 2, b \div 2)

Zero32 == <<0, 0>>

\* a shift on a buffer of 16 bits: the bits shifted past bit 15 are lost
Shl16(w, k) ==
  IF k < 16 THEN <<0, (w[2] * 2^k) % H16>> ELSE Zero32

\* w << k for 0 <= k <= 31, the bits shifted past bit 31 are lost
Shl32(w, k) ==
  IF k = 0 THEN w
  ELSE IF k < 16
    THEN LET lo == w[2] * 2^k
         IN <<((w[1] * 2^k) % H16) + (lo \div H16), lo % H16>>
    ELSE <<(w[2] * 2^(k - 16)) % H16, 0>>

\* w >> k (sign-propagating) for 0 <= k <= 15
Sar32(w, k) ==
  IF k = 0 THEN w
  ELSE LET fill == IF w[1] >= H15 THEN (2^k - 1) * 2^(16 - k) ELSE 0
       IN <<(w[1] \div 2^k) + fill, (w[2] \div 2^k) + (w[1] % 2^k) * 2^(16 - k)>>

\* w | v and w & v for a v that fits the low half (v < 2^16): the value of
\* the and is a non-negative number below 2^16
Or32(w, v) == <<w[1], BitOr(w[2], v)>>

And32(w, v) == BitAnd(w[2], v)

\* ToInt32(a + v) for a natural v below 2^16
Add32(w, v) ==
  LET lo == w[2] + v
  IN <<(w[1] + (lo \div H16)) % H16, lo % H16>>

\* ToInt32(a - b)
Sub32(a, b) ==
  LET borrow == IF a[2] < b[2] THEN 1 ELSE 0
  IN <<(a[1] - b[1] - borrow + 2 * H16) % H16, (a[2] - b[2] + H16) % H16>>

IsNeg32(w) == w[1] >= H15

\* Math.abs of an int32, as an unsigned 32-bit magnitude (abs(-2^31) = 2^31)
Abs32(w) == IF IsNeg32(w) THEN Sub32(Zero32, w) ELSE w

\* a & b on two int32 values
BitAnd32(a, b) == <<BitAnd(a[1], b[1]), BitAnd(a[2], b[2])>>

\* The value of a number expression before it is brought back to int32:
\* x[1] * 2^16 + x[2] with x[1] any integer and 0 <= x[2] < 2^16.
Exact(w) == <<IF IsNeg32(w) THEN w[1] - H16 ELSE w[1], w[2]>>

ExactSub(x, y) ==
  LET borrow == IF x[2] < y[2] THEN 1 ELSE 0
  IN <<x[1] - y[1] - borrow, (x[2] - y[2] + H16) % H16>>

\* x + v for a natural v below 2^16
ExactAdd(x, v) ==
  LET lo == x[2] + v
  IN <<x[1] + (lo \div H16), lo % H16>>

\* x * 31
ExactTimes31(x) ==
  LET lo == x[2] * 31
  IN <<x[1] * 31 + (lo \div H16), lo % H16>>

\* ToInt32: the value modulo 2^32, read as signed
ToInt32(x) == <<x[1] % H16, x[2]>>

(***************************************************************************)
(* Strings                                                                 *)
(***************************************************************************)
Colon == 58

CharG == 71

CharC == 67

Space == 32

Newline == 10

\* "GC:"
GCPrefix == <<CharG, CharC, Colon>>

RECURSIVE Concat(_)
Concat(ss) == IF ss = <<>> THEN <<>> ELSE Head(ss) \o Concat(Tail(ss))

\* s.substring(from, to) with 0-based, already clamped arguments
Substring(s, from, to) ==
  LET f == Min(from, Len(s))
      t == Min(to, Len(s))
  IN IF t <= f THEN <<>> ELSE SubSeq(s, f + 1, t)

StartsWithAt(s, i, pat) ==
  /\ i + Len(pat) - 1 <= Len(s)
  /\ \A k \in 1..Len(pat) : s[i + k - 1] = pat[k]

\* the positions at which pat occurs in s
Occurrences(s, pat) ==
  {m \in 1..(Len(s) - Len(pat) + 1) : s[m] = pat[1] /\ StartsWithAt(s, m, pat)}

\* s.split(pat) for a non-empty pattern: the pieces between the
\* left-to-right, non-overlapping occurrences of pat; i is the position the
\* search resumes at and found the occurrences not yet passed
RECURSIVE SplitFrom(_, _, _, _)
SplitFrom(s, width, i, found) ==
  LET ahead == {m \in found : m >= i}
  IN IF ahead = {} THEN <<SubSeq(s, i, Len(s))>>
     ELSE LET m == CHOOSE x \in ahead : \A y \in ahead : x <= y
          IN <<SubSeq(s, i, m - 1)>> \o SplitFrom(s, width, m + width, ahead)

Split(s, pat) == SplitFrom(s, Len(pat), 1, Occurrences(s, pat))

RECURSIVE Join(_, _)
Join(parts, sep) ==
  IF parts = <<>> THEN <<>>
  ELSE IF Len(parts) = 1 THEN parts[1]
  ELSE parts[1] \o sep \o Join(Tail(parts), sep)

\* the white space and line terminators String.prototype.trim removes,
\* among the code units the model uses
IsWhiteSpace(c) == c \in {9, 10, 11, 12, 13, 32, 160}

\* !s.trim(): the string is empty or holds white space only
IsBlank(s) == \A k \in 1..Len(s) : IsWhiteSpace(s[k])

IsDigit(c) == c >= 48 /\ c <= 57

\* decimal digits of a natural, as Number.prototype.toString renders it in a
\* template literal
RECURSIVE DecimalDigits(_)
DecimalDigits(n) ==
  IF n < 10 THEN <<48 + n>> ELSE Append(DecimalDigits(n \div 10), 48 + (n % 10))

(***************************************************************************)
(* Checksum                                                                *)
(***************************************************************************)
\* a loop that forgets to subtract: hash = (hash << 5) + charCode
HashStepTimes32(hash, char) == Add32(Shl32(hash, 5), char)

\* one turn of the loop: hash = ((hash << 5) - hash) + charCode; hash |= 0
HashStep(hash, char) == Add32(Sub32(Shl32(hash, 5), hash), char)

RECURSIVE HashLoop(_, _, _)
HashLoop(data, i, hash) ==
  IF i > Len(data) THEN hash ELSE HashLoop(data, i + 1, HashStep(hash, data[i]))

\* quotient and remainder of an unsigned 32-bit magnitude by 36
DivMod36(w) ==
  LET mid == (w[1] % 36) * H16 + w[2]
  IN [q |-> <<w[1] \div 36, mid \div 36>>, r |-> mid % 36]

\* one digit of Number.prototype.toString(36): 0-9, a-z
Base36Digit(d) == IF d < 10 THEN 48 + d ELSE 87 + d

RECURSIVE ToString36(_)
ToString36(w) ==
  IF w[1] = 0 /\ w[2] < 36 THEN <<Base36Digit(w[2])>>
  ELSE LET dm == DivMod36(w) IN Append(ToString36(dm.q), Base36Digit(dm.r))

\* a rendering left in the lower case toString(36) produces
KeepCase(s) == s

\* toUpperCase over the characters toString(36) produces
ToUpperCase(s) == [k \in 1..Len(s) |-> IF s[k] >= 97 /\ s[k] <= 122 THEN s[k] - 32 ELSE s[k]]

calculateChecksum(data) ==
  ToUpperCase(Substring(ToString36(Abs32(HashLoop(data, 1, Zero32))), 0, 4))

\* chunker.ts: hash = ((hash << 5) - hash) + char; hash = hash & hash. The
\* sum is a number outside the int32 range until & converts both operands.
HashStepAnd(hash, char) ==
  LET sum == ExactAdd(ExactSub(Exact(Shl32(hash, 5)), Exact(hash)), char)
  IN BitAnd32(ToInt32(sum), ToInt32(sum))

RECURSIVE HashLoopAnd(_, _, _)
HashLoopAnd(data, i, hash) ==
  IF i > Len(data) THEN hash ELSE HashLoopAnd(data, i + 1, HashStepAnd(hash, data[i]))

calculateChecksumChunker(data) ==
  ToUpperCase(Substring(ToString36(Abs32(HashLoopAnd(data, 1, Zero32))), 0, 4))

\* the checksum the variant v computes
ChecksumOf(v, data) ==
  IF v = "ts" THEN calculateChecksumChunker(data) ELSE calculateChecksum(data)

(***************************************************************************)
(* Alphabet                                                                *)
(***************************************************************************)
START_CHAR == 19968

ALPHABET_SIZE == 32768

\* no index: Map.prototype.get returned undefined
NoIndex == -1

\* a range appended without its exclusion list
AddRangeUnfiltered(start, end, exclude) == << <<start, end>> >>

\* for (i = start; i <= end; i++) if (!exclude.includes(i)) chars += ... :
\* the code units appended, as the maximal runs of consecutive code units
\* (exclude holds at most one code unit, strictly inside start..end)
AddRange(start, end, exclude) ==
  IF exclude = {} THEN << <<start, end>> >>
  ELSE LET x == CHOOSE e \in exclude : TRUE
       IN << <<start, x - 1>>, <<x + 1, end>> >>

\* a range table whose Latin-1 range starts inside the ASCII range
PrefixRangesOverlapping(a) ==
  AddRange(33, 126, {Colon}) \o AddRange(100, 255, {})
    \o AddRange(880, 1023, {}) \o AddRange(1024, 1279, {})

\* the ranges generateAlphabet appends before the CJK filler
PrefixRanges(a) ==
  IF a = "v1"
    THEN AddRange(33, 126, {Colon}) \o AddRange(161, 255, {})
           \o AddRange(880, 1023, {}) \o AddRange(1024, 1279, {})
    ELSE AddRange(33, 126, {Colon}) \o AddRange(161, 255, {})
           \o AddRange(256, 383, {}) \o AddRange(8448, 8527, {})
           \o AddRange(8592, 8703, {}) \o AddRange(8704, 8959, {})
           \o AddRange(9472, 9599, {}) \o AddRange(9728, 9983, {})
           \o AddRange(880, 1023, {}) \o AddRange(1024, 1279, {})

RangeSize(r) == r[2] - r[1] + 1

RECURSIVE RangesLength(_)
RangesLength(rs) == IF rs = <<>> THEN 0 ELSE RangeSize(Head(rs)) + RangesLength(Tail(rs))

\* while (chars.length < 32768) chars += String.fromCharCode(currentCJK++)
CJKFill(prefixLen) ==
  IF prefixLen < ALPHABET_SIZE
    THEN << <<START_CHAR, START_CHAR + (ALPHABET_SIZE - prefixLen) - 1>> >>
    ELSE <<>>

generateAlphabet(a) == PrefixRanges(a) \o CJKFill(RangesLength(PrefixRanges(a)))

\* const ALPHABET = generateAlphabet(): the table of each bundle, built once
ALPHABET == [a \in {"v1", "v2"} |-> generateAlphabet(a)]

\* chars.substring(0, 32768).length
AlphabetLength(a) == Min(RangesLength(ALPHABET[a]), ALPHABET_SIZE)

\* ALPHABET[index]: the code unit at a 0-based position of the string the
\* ranges spell, NoIndex (undefined) past its end
RECURSIVE CharAt(_, _, _)
CharAt(rs, k, index) ==
  IF k > Len(rs) THEN NoIndex
  ELSE IF index < RangeSize(rs[k]) THEN rs[k][1] + index
  ELSE CharAt(rs, k + 1, index - RangeSize(rs[k]))

\* DECODE_MAP.get(c) for the Map built from [c, i] pairs in index order: a
\* later pair replaces an earlier one with the same character, and pairs at
\* positions 32768 and beyond were cut by substring
RECURSIVE MapGet(_, _, _, _, _)
MapGet(rs, k, offset, c, found) ==
  IF k > Len(rs) THEN found
  ELSE LET pos == offset + (c - rs[k][1])
           hit == c >= rs[k][1] /\ c <= rs[k][2] /\ pos < ALPHABET_SIZE
       IN MapGet(rs, k + 1, offset + RangeSize(rs[k]), c, IF hit THEN pos ELSE found)

\* symbol_of: the character an encoder emits for a 15-bit index
SymbolOf(a, index) ==
  IF a = "cjk" THEN (START_CHAR + index) % H16
  ELSE IF index < ALPHABET_SIZE THEN CharAt(ALPHABET[a], 1, index) ELSE NoIndex

\* index_of: the index a decoder reads from a character, NoIndex when the
\* character is skipped
IndexOf(a, c) ==
  IF a = "cjk"
    THEN IF c >= START_CHAR /\ c < START_CHAR + ALPHABET_SIZE THEN c - START_CHAR ELSE NoIndex
    ELSE MapGet(ALPHABET[a], 1, 0, c, NoIndex)

\* ALPHABET_SET.has(c): the Set is built from the same string as the Map
AlphabetHas(a, c) == MapGet(ALPHABET[a], 1, 0, c, NoIndex) # NoIndex

(***************************************************************************)
(* Bit-pack codec                                                          *)
(***************************************************************************)
\* view.setUint32(0, n): big-endian
LengthHeader(n) ==
  <<(n \div 2^24) % 256, (n \div H16) % 256, (n \div 256) % 256, n % 256>>

\* while (bitsInBuffer >= 15) { bitsInBuffer -= 15; emit symbol }
RECURSIVE EncDrain(_, _, _, _)
EncDrain(a, buffer, bits, encoded) ==
  IF bits >= 15
    THEN LET index == And32(Sar32(buffer, bits - 15), 32767)
         IN EncDrain(a, buffer, bits - 15, Append(encoded, SymbolOf(a, index)))
    ELSE [bits |-> bits, encoded |-> encoded]

RECURSIVE EncLoop(_, _, _, _, _, _)
EncLoop(a, combined, i, buffer, bits, encoded) ==
  IF i > Len(combined) THEN [buffer |-> buffer, bits |-> bits, encoded |-> encoded]
  ELSE LET buf == Or32(Shl32(buffer, 8), combined[i])
           d == EncDrain(a, buf, bits + 8, encoded)
       IN EncLoop(a, combined, i + 1, buf, d.bits, d.encoded)

\* an encoder that drops the bits left in the buffer after the last byte
encodeWithoutFlush(a, data) ==
  EncLoop(a, LengthHeader(Len(data)) \o data, 1, Zero32, 0, <<>>).encoded

encodeBase32768(a, data) ==
  LET r == EncLoop(a, LengthHeader(Len(data)) \o data, 1, Zero32, 0, <<>>)
  IN IF r.bits > 0
       THEN Append(r.encoded, SymbolOf(a, And32(Shl32(r.buffer, 15 - r.bits), 32767)))
       ELSE r.encoded

\* a decoder that reads a character it does not recognise as index 0
DecIndicesOfAll(a, str, i) ==
  [k \in 1..Len(str) |-> IF IndexOf(a, str[k]) = NoIndex THEN 0 ELSE IndexOf(a, str[k])]

\* the indices of the characters of str the decoder recognises
RECURSIVE DecIndices(_, _, _)
DecIndices(a, str, i) ==
  IF i > Len(str) THEN <<>>
  ELSE LET index == IndexOf(a, str[i])
       IN (IF index # NoIndex THEN <<index>> ELSE <<>>) \o DecIndices(a, str, i + 1)

\* while (bitsInBuffer >= 8) { bitsInBuffer -= 8; out.push(byte) }
RECURSIVE DecDrain(_, _, _)
DecDrain(buffer, bits, out) ==
  IF bits >= 8
    THEN DecDrain(buffer, bits - 8, Append(out, And32(Sar32(buffer, bits - 8), 255)))
    ELSE [bits |-> bits, out |-> out]

RECURSIVE DecLoop(_, _, _, _, _)
DecLoop(indices, i, buffer, bits, out) ==
  IF i > Len(indices) THEN out
  ELSE LET buf == Or32(Shl32(buffer, 15), indices[i])
           d == DecDrain(buf, bits + 15, out)
       IN DecLoop(indices, i + 1, buf, d.bits, d.out)

\* a decoder that returns everything after the header, padding included
DecSliceToEnd(fullData) == Substring(fullData, 4, Len(fullData))

\* fullData.slice(4, 4 + view.getUint32(0)): the header is read as its two
\* 16-bit halves; a header of 2^16 or more exceeds every buffer of the model
DecSlice(fullData) ==
  LET hi == fullData[1] * 256 + fullData[2]
      lo == fullData[3] * 256 + fullData[4]
  IN IF hi > 0 THEN Substring(fullData, 4, Len(fullData))
     ELSE Substring(fullData, 4, 4 + lo)

decodeBase32768(a, str) ==
  LET fullData == DecLoop(DecIndices(a, str, 1), 1, Zero32, 0, <<>>)
  IN IF Len(fullData) < 4 THEN <<>> ELSE DecSlice(fullData)

(***************************************************************************)
(* Stream compression (the browser's CompressionStream('deflate') and      *)
(* DecompressionStream('deflate'), outside the repository): a stream is    *)
(* the zlib header byte followed by the data, and a buffer that does not   *)
(* start with the header byte is rejected by the decompressor.             *)
(***************************************************************************)
DeflateHeader == 120

compressBytes(data) == <<DeflateHeader>> \o data

\* decompressBytes: ok is FALSE when the stream errors (the promise rejects)
decompressBytes(data) ==
  IF Len(data) >= 1 /\ data[1] = DeflateHeader
    THEN [ok |-> TRUE, raw |-> Tail(data)]
    ELSE [ok |-> FALSE, raw |-> <<>>]

(***************************************************************************)
(* Volume chunker                                                          *)
(***************************************************************************)
Variants == {"ts", "js", "tsx"}

\* the codec alphabet each variant encodes and decodes with
AlphabetOf(v) == IF v = "js" THEN "v1" ELSE IF v = "js2" THEN "v2" ELSE "cjk"

\* a margin of the length of the shortest header
HeaderOverheadTight(v) == 12

\* headerEstimate (chunker.ts), maxChars - 50 (index.js:160), maxChars - 60
\* (index.js:627), maxChars - 40 (index.tsx)
HeaderOverhead(v) == IF v = "js" THEN 50 ELSE IF v = "js2" THEN 60 ELSE 40

CeilDiv(n, d) == (n + d - 1) \div d

\* a header that counts the volumes from 1
VolumeStringFromOne(type, total, i, payload) ==
  GCPrefix \o <<type, Colon>> \o DecimalDigits(total) \o <<Colon>> \o DecimalDigits(i + 1)
    \o <<Colon>> \o calculateChecksum(payload) \o <<Colon>> \o payload

\* `GC:${type}:${total}:${i}:${checksum}:${payload}`
VolumeString(type, total, i, payload) ==
  GCPrefix \o <<type, Colon>> \o DecimalDigits(total) \o <<Colon>> \o DecimalDigits(i)
    \o <<Colon>> \o calculateChecksum(payload) \o <<Colon>> \o payload

\* a slice that runs one character into the next volume's payload
PayloadSliceInclusive(encodedText, size, i) ==
  Substring(encodedText, i * size, (i + 1) * size + 1)

\* the payload of volume i (0-based): encodedText.substring(i * size, (i + 1) * size)
PayloadSlice(encodedText, size, i) == Substring(encodedText, i * size, (i + 1) * size)

\* createVolumes: threw is TRUE when the call throws instead of returning.
\* chunker.ts throws on effectivePayloadSize <= 0.  index.js and index.tsx do
\* not test the size: Math.ceil(length / size) is -0 or negative for a
\* negative size and NaN for 0 / 0, which Array.from takes as length 0, and
\* Infinity for a positive length over size 0, on which Array.from throws a
\* RangeError.
createVolumes(v, type, encodedText, maxChars) ==
  LET size == maxChars - HeaderOverhead(v)
      total == IF size > 0 THEN CeilDiv(Len(encodedText), size) ELSE 0
  IN IF size <= 0 /\ (v = "ts" \/ (size = 0 /\ Len(encodedText) > 0))
       THEN [threw |-> TRUE, volumes |-> <<>>]
       ELSE [threw |-> FALSE,
             volumes |-> [k \in 1..total |->
                            VolumeString(type, total, k - 1,
                                         PayloadSlice(encodedText, size, k - 1))]]

(***************************************************************************)
(* Volume extractor                                                        *)
(***************************************************************************)
\* parseInt returned NaN
NaN == -1000000

RECURSIVE SkipWhiteSpace(_, _)
SkipWhiteSpace(s, i) ==
  IF i <= Len(s) /\ IsWhiteSpace(s[i]) THEN SkipWhiteSpace(s, i + 1) ELSE i

RECURSIVE ParseDigits(_, _, _)
ParseDigits(s, i, acc) ==
  IF i <= Len(s) /\ IsDigit(s[i]) THEN ParseDigits(s, i + 1, acc * 10 + (s[i] - 48)) ELSE acc

\* parseInt(s) for the decimal fields of the model: leading white space, an
\* optional sign, then the longest run of digits; NaN when there is no digit
parseInt(s) ==
  LET i == SkipWhiteSpace(s, 1)
      signed == i <= Len(s) /\ s[i] \in {43, 45}
      j == IF signed THEN i + 1 ELSE i
  IN IF j <= Len(s) /\ IsDigit(s[j])
       THEN (IF signed /\ s[i] = 45 THEN -1 ELSE 1) * ParseDigits(s, j, 0)
       ELSE NaN

\* the characters of rawPayload the variant keeps: chunker.ts keeps the code
\* units in [0x4E00, 0x4E00 + 32768), index.js those in ALPHABET_SET, and
\* index.tsx takes the raw payload as it is
RECURSIVE CleanPayload(_, _, _)
CleanPayload(v, raw, i) ==
  IF i > Len(raw) THEN <<>>
  ELSE LET keep == IF v = "ts" THEN raw[i] >= START_CHAR /\ raw[i] < START_CHAR + ALPHABET_SIZE
                   ELSE IF v = "js" THEN AlphabetHas("v1", raw[i])
                   ELSE TRUE
       IN (IF keep THEN <<raw[i]>> ELSE <<>>) \o CleanPayload(v, raw, i + 1)

\* an extractor that compares no checksum
AcceptsAll(v, checksum, cleaned) == TRUE

\* whether the variant pushes the candidate it parsed from a segment
Accepts(v, checksum, cleaned) ==
  IF v = "ts" THEN Len(cleaned) > 0 /\ calculateChecksum(cleaned) = checksum
  ELSE IF v = "js" THEN calculateChecksum(cleaned) = checksum
  ELSE TRUE

\* an extractor that also wants the index to lie in 0 .. total-1
ExtractSegmentInRange(v, segment) ==
  LET parts == Split(segment, <<Colon>>)
  IN IF IsBlank(segment) \/ Len(parts) < 5 THEN <<>>
     ELSE LET cleaned == CleanPayload(v, Join(SubSeq(parts, 5, Len(parts)), <<Colon>>), 1)
          IN IF /\ Accepts(v, parts[4], cleaned)
                /\ parseInt(parts[3]) >= 0
                /\ parseInt(parts[3]) < parseInt(parts[2])
               THEN << [type |-> parts[1], total |-> parseInt(parts[2]),
                        index |-> parseInt(parts[3]), checksum |-> parts[4],
                        payload |-> cleaned] >>
               ELSE <<>>

\* the candidates one segment yields: none or one
ExtractSegment(v, segment) ==
  LET parts == Split(segment, <<Colon>>)
  IN IF IsBlank(segment) \/ Len(parts) < 5 THEN <<>>
     ELSE LET cleaned == CleanPayload(v, Join(SubSeq(parts, 5, Len(parts)), <<Colon>>), 1)
          IN IF Accepts(v, parts[4], cleaned)
               THEN << [type |-> parts[1], total |-> parseInt(parts[2]),
                        index |-> parseInt(parts[3]), checksum |-> parts[4],
                        payload |-> cleaned] >>
               ELSE <<>>

RECURSIVE ExtractSegments(_, _, _)
ExtractSegments(v, segments, k) ==
  IF k > Len(segments) THEN <<>>
  ELSE ExtractSegment(v, segments[k]) \o ExtractSegments(v, segments, k + 1)

\* extractAllChunks (chunker.ts), extractChunks (index.js, index.tsx)
extractChunks(v, text) == ExtractSegments(v, Split(text, GCPrefix), 1)

(***************************************************************************)
(* The receiving view: persistentChunks is a Map from index to chunk,      *)
(* modelled as the sequence of its values in insertion order (a set on an  *)
(* existing key keeps the key's place).                                    *)
(***************************************************************************)
MapHas(m, key) == \E k \in 1..Len(m) : m[k].index = key

\* newMap.set(c.index, c)
MapSet(m, c) ==
  IF MapHas(m, c.index)
    THEN [k \in 1..Len(m) |-> IF m[k].index = c.index THEN c ELSE m[k]]
    ELSE Append(m, c)

\* chunks.forEach(c => newMap.set(c.index, c))
RECURSIVE InsertAll(_, _)
InsertAll(m, chunks) ==
  IF chunks = <<>> THEN m ELSE InsertAll(MapSet(m, Head(chunks)), Tail(chunks))

MapKeys(m) == [k \in 1..Len(m) |-> m[k].index]

MapGetChunk(m, key) == m[CHOOSE k \in 1..Len(m) : m[k].index = key]

\* the keys left in the order the Map yields them
InsertionOrder(xs) == xs

\* Array.prototype.sort((a, b) => a - b) over numbers: ascending
RECURSIVE InsertSorted(_, _)
InsertSorted(sorted, x) ==
  IF sorted = <<>> THEN <<x>>
  ELSE IF x < Head(sorted) THEN <<x>> \o sorted
  ELSE <<Head(sorted)>> \o InsertSorted(Tail(sorted), x)

RECURSIVE SortNumbers(_)
SortNumbers(xs) ==
  IF xs = <<>> THEN <<>> ELSE InsertSorted(SortNumbers(Tail(xs)), Head(xs))

\* size >= total as JavaScript compares numbers: false against NaN
GreaterEq(size, total) == total # NaN /\ size >= total

NoMedia == [type |-> <<>>, raw |-> <<>>, set |-> FALSE]

NoRebuild == [started |-> FALSE, indices |-> <<>>, payload |-> <<>>, total |-> 0, entries |-> <<>>]

Err(kind, have, total) == [kind |-> kind, have |-> have, total |-> total]

NoError == Err("none", 0, 0)

\* the synchronous part of a reassembly, up to the await of decompressBytes:
\* the payloads joined in ascending index order are decoded, and the
\* decompression is left in flight
StartRebuild(v, st, map, first) ==
  LET sortedIndices == SortNumbers(MapKeys(map))
      combinedPayload == Concat([k \in 1..Len(sortedIndices) |->
                                   MapGetChunk(map, sortedIndices[k]).payload])
      type == IF v = "ts" THEN MapGetChunk(map, sortedIndices[1]).type ELSE first.type
      job == [type |-> type, compressed |-> decodeBase32768(AlphabetOf(v), combinedPayload)]
  IN [st EXCEPT !.pending = st.pending \cup {job},
                !.rebuilt = [started |-> TRUE, indices |-> sortedIndices,
                             payload |-> combinedPayload, total |-> first.total,
                             entries |-> map]]

\* processText (components/DecodingView) on the text of the textarea or the
\* clipboard; closure is the persistentChunks the handler's render captured
processText(closure, st, text) ==
  LET chunks == extractChunks("ts", text)
      newMap == InsertAll(closure, chunks)
      first == chunks[1]
  IN IF IsBlank(text) THEN st
     ELSE IF chunks = <<>>
       THEN IF Len(Split(text, GCPrefix)) > 1
              THEN [st EXCEPT !.error = Err("Missing GC Protocol signature.", 0, 0)]
              ELSE st
     ELSE IF GreaterEq(Len(newMap), first.total)
       THEN StartRebuild("ts", [st EXCEPT !.chunks = newMap, !.error = NoError,
                                          !.busy = TRUE], newMap, first)
       ELSE [st EXCEPT !.chunks = newMap,
                       !.error = Err("Syncing", Len(newMap), first.total)]

\* handleDecode (index.js, index.tsx): first is the first value of the Map
\* in index.js and the first extracted chunk in index.tsx
handleDecode(v, closure, st, text) ==
  LET chunks == extractChunks(v, text)
      newMap == InsertAll(closure, chunks)
      first == IF v = "js" THEN newMap[1] ELSE chunks[1]
  IN IF chunks = <<>> THEN st
     ELSE IF GreaterEq(Len(newMap), first.total)
       THEN StartRebuild(v, [st EXCEPT !.chunks = newMap], newMap, first)
       ELSE [st EXCEPT !.chunks = newMap]

HandlePaste(v, closure, st, text) ==
  IF v = "ts" THEN processText(closure, st, text) ELSE handleDecode(v, closure, st, text)

\* a continuation that shows whatever bytes it was given, failed or not
SettleShowingAnyway(v, st, job) ==
  [st EXCEPT !.pending = st.pending \ {job},
             !.media = [type |-> job.type, raw |-> job.compressed, set |-> TRUE],
             !.busy = FALSE]

\* the continuation of a reassembly after the await: the decompression
\* resolved (media is shown) or rejected (an error is shown)
SettleRebuild(v, st, job) ==
  LET r == decompressBytes(job.compressed)
      left == [st EXCEPT !.pending = st.pending \ {job}]
  IN IF v = "ts"
       THEN IF r.ok
              THEN [left EXCEPT !.media = [type |-> job.type, raw |-> r.raw, set |-> TRUE],
                                !.busy = FALSE]
              ELSE [left EXCEPT !.error = Err("Checksum Failed: Integrity Error.", 0, 0),
                                !.busy = FALSE]
       ELSE IF r.ok
              THEN [left EXCEPT !.media = [type |-> job.type, raw |-> r.raw, set |-> TRUE]]
              ELSE [left EXCEPT !.error = Err(IF v = "js" THEN "Data Mismatch: Check Integrity"
                                                          ELSE "Corruption Detected", 0, 0)]

(***************************************************************************)
(* State                                                                   *)
(***************************************************************************)
VARIABLES
  pc,                \* position of the run
  variant,           \* the copy of the pipeline that runs
  alphabet,          \* the alphabet of the codec
  data,              \* byte buffer handed to encodeBase32768
  encoded,           \* its symbol string
  decoded,           \* bytes decodeBase32768 returned
  probe,             \* code unit looked up in the alphabet
  fingerprint,       \* string calculateChecksum returned
  buffer,            \* the codec's 32-bit bit buffer
  bitsInBuffer,      \* number of live bits in it
  cursor,            \* number of bytes or symbols shifted in so far
  mediaType,         \* type letter of the transmission
  encodedText,       \* symbol string handed to createVolumes
  maxChars,          \* character limit handed to createVolumes
  sent,              \* result of createVolumes: [threw, volumes]
  copied,            \* text the sending view handed to the clipboard or the share sheet
  pasted,            \* text of the last paste
  tamper,            \* the character replaced in it: [volume, pos, char]
  extracted,         \* chunks the extractor returned for it
  persistentChunks,  \* Map<number, GCChunk> of the receiving view
  persistentMedia,   \* reconstructed media, or NoMedia
  error,             \* error line of the receiving view
  isReconstructing,  \* busy flag of the receiving view
  pending,           \* reassemblies awaiting decompressBytes
  rebuilt,           \* the last reassembly started
  reads              \* clipboard reads in flight: the Map each handler captured

bufferVars == <<buffer, bitsInBuffer, cursor>>

codecVars == <<alphabet, data, encoded, decoded, probe, fingerprint, bufferVars>>

senderVars == <<mediaType, encodedText, maxChars, sent, copied>>

receiverVars == <<pasted, tamper, extracted, persistentChunks, persistentMedia, error,
                  isReconstructing, pending, rebuilt, reads>>

vars == <<pc, variant, codecVars, senderVars, receiverVars>>

MediaTypes == {73, 65, 86}

BufferIdle == buffer = Zero32 /\ bitsInBuffer = 0 /\ cursor = 0

CodecIdle ==
  /\ data = <<>> /\ encoded = <<>> /\ decoded = <<>> /\ probe = 0 /\ fingerprint = <<>>
  /\ BufferIdle

SenderIdle ==
  /\ mediaType = 73 /\ encodedText = <<>> /\ maxChars = 0
  /\ sent = [threw |-> FALSE, volumes |-> <<>>]
  /\ copied = <<>>

NoTamper == [volume |-> 0, pos |-> 0, char |-> 0]

ReceiverIdle ==
  /\ pasted = <<>> /\ tamper = NoTamper /\ extracted = <<>>
  /\ persistentChunks = <<>> /\ persistentMedia = NoMedia
  /\ error = NoError /\ isReconstructing = FALSE
  /\ pending = {} /\ rebuilt = NoRebuild /\ reads = <<>>

\* sequences over S of length at most n
BoundedSeq(S, n) == UNION {[1..k -> S] : k \in 0..n}

(***************************************************************************)
(* The codec on its own: a byte buffer is encoded, the symbols decoded     *)
(* again, and the symbols cut into volumes.                                *)
(***************************************************************************)
MaxBytes == 4

MaxEffective == 3

ByteSamples == {0, 1, 128, 255}

ZeroBytes(n) == [k \in 1..n |-> 0]

CodecInputs == BoundedSeq(ByteSamples, MaxBytes) \cup {ZeroBytes(16)}

InitCodec ==
  /\ pc = "data"
  /\ variant \in {"ts", "js"}
  /\ alphabet = AlphabetOf(variant)
  /\ data \in CodecInputs
  /\ encoded = <<>> /\ decoded = <<>> /\ probe = 0 /\ fingerprint = <<>> /\ BufferIdle
  /\ mediaType \in MediaTypes
  /\ encodedText = <<>> /\ maxChars = 0
  /\ sent = [threw |-> FALSE, volumes |-> <<>>]
  /\ copied = <<>>
  /\ ReceiverIdle

Encode ==
  /\ pc = "data"
  /\ encoded' = encodeBase32768(alphabet, data)
  /\ pc' = "encoded"
  /\ UNCHANGED <<variant, alphabet, data, decoded, probe, fingerprint, bufferVars, senderVars, receiverVars>>

Decode ==
  /\ pc = "encoded"
  /\ decoded' = decodeBase32768(alphabet, encoded)
  /\ pc' = "decoded"
  /\ UNCHANGED <<variant, alphabet, data, encoded, probe, fingerprint, bufferVars, senderVars, receiverVars>>

\* createVolumes on the encoder's output
Volumes ==
  /\ pc = "decoded"
  /\ \E size \in 1..MaxEffective :
       /\ maxChars' = HeaderOverhead(variant) + size
       /\ encodedText' = encoded
       /\ sent' = createVolumes(variant, mediaType, encoded, HeaderOverhead(variant) + size)
  /\ pc' = "volumes"
  /\ UNCHANGED <<variant, codecVars, mediaType, copied, receiverVars>>

NextCodec == Encode \/ Decode \/ Volumes

SpecCodec == InitCodec /\ [][NextCodec]_vars

(***************************************************************************)
(* The decoder on its own: any string of symbols and stray characters is   *)
(* decoded.                                                                *)
(***************************************************************************)
MaxString == 4

\* indices whose symbols spell length headers 0, 1 and 2 and all-ones bits
IndexSamples == {0, 8192, 16384, 32767}

\* characters outside the alphabet
StrayChars(a) == IF a = "cjk" THEN {Space, 65} ELSE {Space, Colon}

InitDecode ==
  /\ pc = "encoded"
  /\ variant \in {"ts", "js"}
  /\ alphabet = AlphabetOf(variant)
  /\ encoded \in BoundedSeq({SymbolOf(alphabet, i) : i \in IndexSamples}
                              \cup StrayChars(alphabet), MaxString)
  /\ data = <<>> /\ decoded = <<>> /\ probe = 0 /\ fingerprint = <<>> /\ BufferIdle
  /\ SenderIdle /\ ReceiverIdle

NextDecode == Decode

SpecDecode == InitDecode /\ [][NextDecode]_vars

(***************************************************************************)
(* The bit buffer of the codec, one loop iteration at a time: the encoder  *)
(* shifts a byte of combined in and its inner loop takes the symbols out,  *)
(* then the decoder shifts an index in and its inner loop takes the bytes  *)
(* out.  decoded holds the decoder's out array until the decoder returns.  *)
(***************************************************************************)
MaxStream == 15

Fill(b, n) == [k \in 1..n |-> b]

Ramp(n) == [k \in 1..n |-> (k * 37) % 256]

StreamInputs ==
  {Fill(b, n) : b \in {0, 165, 255}, n \in 0..MaxStream} \cup {Ramp(n) : n \in 1..MaxStream}

\* const combined = lengthHeader followed by data
Combined == LengthHeader(Len(data)) \o data

\* const indices, of the string the encoder returned
Indices == DecIndices(alphabet, encoded, 1)

InitBuffer ==
  /\ pc = "enc.next"
  /\ variant \in {"ts", "js"}
  /\ alphabet = AlphabetOf(variant)
  /\ data \in StreamInputs
  /\ encoded = <<>> /\ decoded = <<>> /\ probe = 0 /\ fingerprint = <<>> /\ BufferIdle
  /\ SenderIdle /\ ReceiverIdle

\* buffer = (buffer << 8) | combined[i]; bitsInBuffer += 8
EncShift ==
  /\ pc = "enc.next"
  /\ cursor < Len(Combined)
  /\ buffer' = Or32(Shl32(buffer, 8), Combined[cursor + 1])
  /\ bitsInBuffer' = bitsInBuffer + 8
  /\ cursor' = cursor + 1
  /\ pc' = "enc.shifted"
  /\ UNCHANGED <<variant, alphabet, data, encoded, decoded, probe, fingerprint, senderVars,
                 receiverVars>>

\* the encoder's inner loop
EncInner ==
  /\ pc = "enc.shifted"
  /\ LET d == EncDrain(alphabet, buffer, bitsInBuffer, encoded)
     IN bitsInBuffer' = d.bits /\ encoded' = d.encoded
  /\ pc' = "enc.next"
  /\ UNCHANGED <<variant, alphabet, data, decoded, probe, fingerprint, buffer, cursor,
                 senderVars, receiverVars>>

\* the bits left after the last byte are flushed and the string returned;
\* the decoder starts on it with a buffer of its own
EncFlush ==
  /\ pc = "enc.next"
  /\ cursor = Len(Combined)
  /\ encoded' = IF bitsInBuffer > 0
                  THEN Append(encoded, SymbolOf(alphabet,
                                And32(Shl32(buffer, 15 - bitsInBuffer), 32767)))
                  ELSE encoded
  /\ buffer' = Zero32 /\ bitsInBuffer' = 0 /\ cursor' = 0
  /\ pc' = "dec.next"
  /\ UNCHANGED <<variant, alphabet, data, decoded, probe, fingerprint, senderVars,
                 receiverVars>>

\* buffer = (buffer << 15) | index; bitsInBuffer += 15
DecShift ==
  /\ pc = "dec.next"
  /\ cursor < Len(Indices)
  /\ buffer' = Or32(Shl32(buffer, 15), Indices[cursor + 1])
  /\ bitsInBuffer' = bitsInBuffer + 15
  /\ cursor' = cursor + 1
  /\ pc' = "dec.shifted"
  /\ UNCHANGED <<variant, alphabet, data, encoded, decoded, probe, fingerprint, senderVars,
                 receiverVars>>

\* the decoder's inner loop
DecInner ==
  /\ pc = "dec.shifted"
  /\ LET d == DecDrain(buffer, bitsInBuffer, decoded)
     IN bitsInBuffer' = d.bits /\ decoded' = d.out
  /\ pc' = "dec.next"
  /\ UNCHANGED <<variant, alphabet, data, encoded, probe, fingerprint, buffer, cursor,
                 senderVars, receiverVars>>

\* the header is read and the data after it returned
DecReturn ==
  /\ pc = "dec.next"
  /\ cursor = Len(Indices)
  /\ decoded' = IF Len(decoded) < 4 THEN <<>> ELSE DecSlice(decoded)
  /\ pc' = "dec.done"
  /\ UNCHANGED <<variant, alphabet, data, encoded, probe, fingerprint, bufferVars,
                 senderVars, receiverVars>>

NextBuffer == EncShift \/ EncInner \/ EncFlush \/ DecShift \/ DecInner \/ DecReturn

SpecBuffer == InitBuffer /\ [][NextBuffer]_vars

(***************************************************************************)
(* The checksum on its own: any short string is fingerprinted.             *)
(***************************************************************************)
MaxText == 5

\* a digit, the first and a middle symbol of the alphabet, the last code unit
CharSamples == {48, 19968, 47244, 65535}

InitChecksum ==
  /\ pc = "string"
  /\ variant \in {"ts", "js"}
  /\ alphabet = AlphabetOf(variant)
  /\ encoded \in BoundedSeq(CharSamples, MaxText)
  /\ data = <<>> /\ decoded = <<>> /\ probe = 0 /\ fingerprint = <<>> /\ BufferIdle
  /\ SenderIdle /\ ReceiverIdle

Checksum ==
  /\ pc = "string"
  /\ fingerprint' = ChecksumOf(variant, encoded)
  /\ pc' = "checksum"
  /\ UNCHANGED <<variant, alphabet, data, encoded, decoded, probe, bufferVars, senderVars, receiverVars>>

NextChecksum == Checksum

SpecChecksum == InitChecksum /\ [][NextChecksum]_vars

(***************************************************************************)
(* The alphabet tables: every UTF-16 code unit is looked up in turn.       *)
(***************************************************************************)
MaxCodeUnit == H16 - 1

InitAlphabet ==
  /\ pc = "probe"
  /\ variant = "js"
  /\ alphabet \in {"v1", "v2"}
  /\ data = <<>> /\ encoded = <<>> /\ decoded = <<>>
  /\ probe = 0 /\ fingerprint = <<>> /\ BufferIdle
  /\ SenderIdle /\ ReceiverIdle

NextProbe ==
  /\ pc = "probe"
  /\ probe < MaxCodeUnit
  /\ probe' = probe + 1
  /\ UNCHANGED <<pc, variant, alphabet, data, encoded, decoded, fingerprint, bufferVars, senderVars,
                 receiverVars>>

NextAlphabet == NextProbe

SpecAlphabet == InitAlphabet /\ [][NextAlphabet]_vars

(***************************************************************************)
(* The chunker against the extractor: a symbol string is cut into volumes, *)
(* and the volumes are pasted into an empty receiving view, either all of  *)
(* them as produced or one of them with a payload character replaced.      *)
(***************************************************************************)
MaxSymbols == 3

SymbolSamples(v) == IF v = "js" THEN {71, 47244} ELSE {19968, 47244}

Receiver ==
  [chunks |-> persistentChunks, media |-> persistentMedia, error |-> error,
   busy |-> isReconstructing, pending |-> pending, rebuilt |-> rebuilt]

SetReceiver(st) ==
  /\ persistentChunks' = st.chunks
  /\ persistentMedia' = st.media
  /\ error' = st.error
  /\ isReconstructing' = st.busy
  /\ pending' = st.pending
  /\ rebuilt' = st.rebuilt

InitChunk ==
  /\ pc = "input"
  /\ variant \in Variants
  /\ alphabet = AlphabetOf(variant)
  /\ CodecIdle
  /\ mediaType \in MediaTypes
  /\ encodedText \in BoundedSeq(SymbolSamples(variant), MaxSymbols)
  /\ maxChars \in (HeaderOverhead(variant) - 1)..(HeaderOverhead(variant) + MaxEffective)
  /\ sent = [threw |-> FALSE, volumes |-> <<>>]
  /\ copied = <<>>
  /\ ReceiverIdle

\* the sender compiles the transmission
Compile ==
  /\ pc = "input"
  /\ sent' = createVolumes(variant, mediaType, encodedText, maxChars)
  /\ pc' = "sent"
  /\ UNCHANGED <<variant, codecVars, mediaType, encodedText, maxChars, copied, receiverVars>>

\* the number of characters of a produced volume before its payload
HeaderLength(volume) == Len(volume) - Len(Join(SubSeq(Split(volume, <<Colon>>), 6,
                                                      Len(Split(volume, <<Colon>>))), <<Colon>>))

\* the payload a produced volume carries
PayloadOf(volume) == Substring(volume, HeaderLength(volume), Len(volume))

\* every produced volume, one per line, is pasted at once
PasteAll ==
  /\ pc = "sent"
  /\ sent.volumes # <<>>
  /\ LET text == Join(sent.volumes, <<Newline>>)
     IN /\ pasted' = text
        /\ extracted' = extractChunks(variant, text)
        /\ SetReceiver(HandlePaste(variant, persistentChunks, Receiver, text))
  /\ pc' = "pasted"
  /\ UNCHANGED <<variant, codecVars, senderVars, tamper, reads>>

\* characters a payload character c is replaced by: the next code unit, a
\* delimiter, a blank, a letter and the symbols of the pool
Replacements(v, c) == ({c + 1, Colon, Space, 65} \cup SymbolSamples(v)) \ {c}

\* one produced volume is pasted with one payload character replaced
PasteTampered ==
  /\ pc = "sent"
  /\ \E k \in 1..Len(sent.volumes) :
       \E pos \in (HeaderLength(sent.volumes[k]) + 1)..Len(sent.volumes[k]) :
         \E c \in Replacements(variant, sent.volumes[k][pos]) :
           LET text == [sent.volumes[k] EXCEPT ![pos] = c]
           IN /\ pasted' = text
              /\ tamper' = [volume |-> k, pos |-> pos, char |-> c]
              /\ extracted' = extractChunks(variant, text)
              /\ SetReceiver(HandlePaste(variant, persistentChunks, Receiver, text))
  /\ pc' = "tampered"
  /\ UNCHANGED <<variant, codecVars, senderVars, reads>>

NextChunk == Compile \/ PasteAll \/ PasteTampered

SpecChunk == InitChunk /\ [][NextChunk]_vars

(***************************************************************************)
(* The chunker on its own, in the four senders: a symbol string of any     *)
(* length up to MaxLong is cut under a limit around the header margin or   *)
(* under the limit 40.                                                     *)
(***************************************************************************)
MaxLong == 30

SenderVariants == Variants \cup {"js2"}

SmallLimit == 40

\* the symbol c, n times
Repeat(c, n) == [k \in 1..n |-> c]

InitVolumes ==
  /\ pc = "input"
  /\ variant \in SenderVariants
  /\ alphabet = AlphabetOf(variant)
  /\ CodecIdle
  /\ mediaType \in MediaTypes
  /\ encodedText \in {Repeat(c, n) : c \in SymbolSamples(variant), n \in 0..MaxLong}
  /\ maxChars \in {SmallLimit}
                  \cup (HeaderOverhead(variant) - 1)..(HeaderOverhead(variant) + MaxEffective)
  /\ sent = [threw |-> FALSE, volumes |-> <<>>]
  /\ copied = <<>>
  /\ ReceiverIdle

NextVolumes == Compile

SpecVolumes == InitVolumes /\ [][NextVolumes]_vars

(***************************************************************************)
(* A session: the sender compiles one transmission, and the receiving view *)
(* is fed its volumes, and those of another transmission, in any order and *)
(* any number of times, while reassemblies settle and the user resets.     *)
(***************************************************************************)
MaxSessionSize == 3

MaxPending == 1

\* the media bytes of the session's transmission (five symbols, cut into
\* volumes of two symbols or more) and of the other one
SessionBytes == <<7, 7, 7>>

ForeignBytes == <<9, 9>>

\* the volumes of the other transmission, by variant: four symbols in two
\* volumes
ForeignVolumes ==
  [v \in Variants |->
     createVolumes(v, 65, encodeBase32768(AlphabetOf(v), compressBytes(ForeignBytes)),
                   HeaderOverhead(v) + 2).volumes]

Init ==
  /\ pc = "input"
  /\ variant \in {"ts", "js"}
  /\ alphabet = AlphabetOf(variant)
  /\ data = SessionBytes
  /\ encoded = <<>> /\ decoded = <<>> /\ probe = 0 /\ fingerprint = <<>> /\ BufferIdle
  /\ mediaType = 73
  /\ encodedText = <<>>
  /\ maxChars \in (HeaderOverhead(variant) + 2)..(HeaderOverhead(variant) + MaxSessionSize)
  /\ sent = [threw |-> FALSE, volumes |-> <<>>]
  /\ copied = <<>>
  /\ ReceiverIdle

\* handleProcess: the media bytes are compressed, encoded and cut into volumes
Process ==
  /\ pc = "input"
  /\ LET text == encodeBase32768(alphabet, compressBytes(data))
     IN /\ encodedText' = text
        /\ sent' = createVolumes(variant, mediaType, text, maxChars)
  /\ pc' = "sent"
  /\ UNCHANGED <<variant, codecVars, mediaType, maxChars, copied, receiverVars>>

\* the textarea is rendered while no media is shown; its change handler
\* runs the extraction and the insertion on the pasted text
Paste(text) ==
  /\ pc = "sent"
  /\ ~persistentMedia.set
  /\ LET st == HandlePaste(variant, persistentChunks, Receiver, text)
     IN /\ Cardinality(st.pending) <= MaxPending
        /\ SetReceiver(st)
  /\ UNCHANGED <<pc, variant, codecVars, senderVars, pasted, tamper, reads, extracted>>

PasteVolume == \E k \in 1..Len(sent.volumes) : Paste(sent.volumes[k])

PasteEverything == Paste(Join(sent.volumes, <<Newline>>))

\* a stray volume: the first volume of the other transmission
PasteForeign == Paste(ForeignVolumes[variant][1])

\* a volume with a valid checksum whose index field is its total: the first
\* payload of the transmission under the index one past the last
PasteOutOfRange ==
  /\ sent.volumes # <<>>
  /\ Paste(VolumeString(mediaType, Len(sent.volumes), Len(sent.volumes),
                        PayloadOf(sent.volumes[1])))

\* a text that names the protocol and holds no volume
PasteGarbage == Paste(GCPrefix)

\* the decompression of a started reassembly resolves or rejects
Settle ==
  /\ pc = "sent"
  /\ \E job \in pending : SetReceiver(SettleRebuild(variant, Receiver, job))
  /\ UNCHANGED <<pc, variant, codecVars, senderVars, pasted, tamper, reads, extracted>>

\* "Clear Sync Buffer" (components/DecodingView)
ClearSyncBuffer ==
  /\ pc = "sent"
  /\ variant = "ts"
  /\ ~persistentMedia.set
  /\ persistentChunks # <<>>
  /\ persistentChunks' = <<>>
  /\ error' = NoError
  /\ UNCHANGED <<pc, variant, codecVars, senderVars, pasted, tamper, reads, extracted,
                 persistentMedia, isReconstructing, pending, rebuilt>>

\* "Initiate New Assembly", "Clear Terminal", "Clear and Restart"
ClearMedia ==
  /\ pc = "sent"
  /\ persistentMedia.set
  /\ persistentChunks' = <<>>
  /\ persistentMedia' = NoMedia
  /\ UNCHANGED <<pc, variant, codecVars, senderVars, pasted, tamper, reads, extracted,
                 error, isReconstructing, pending, rebuilt>>

\* the close button of the error line (components/DecodingView)
DismissError ==
  /\ pc = "sent"
  /\ variant = "ts"
  /\ error # NoError
  /\ error' = NoError
  /\ UNCHANGED <<pc, variant, codecVars, senderVars, pasted, tamper, reads, extracted,
                 persistentChunks, persistentMedia, isReconstructing, pending, rebuilt>>

Next ==
  \/ Process
  \/ PasteVolume
  \/ PasteEverything
  \/ PasteForeign
  \/ PasteGarbage
  \/ Settle
  \/ ClearSyncBuffer
  \/ ClearMedia
  \/ DismissError

Spec == Init /\ [][Next]_vars

\* The extractor on a text that holds two transmissions: the volumes of the
\* sender's and of the other one alternate, after a segment of three
\* fields and before a volume whose checksum field is wrong.
RECURSIVE Interleave(_, _)
Interleave(xs, ys) ==
  IF xs = <<>> THEN ys
  ELSE IF ys = <<>> THEN xs
  ELSE <<Head(xs), Head(ys)>> \o Interleave(Tail(xs), Tail(ys))

\* "GC:I:1:0"
ShortSegment == GCPrefix \o <<73, Colon, 49, Colon, 48>>

\* the first volume of the other transmission under the checksum "ZZZZZ"
MismatchedVolume(v) ==
  GCPrefix \o <<65, Colon, 50, Colon, 48, Colon, 90, 90, 90, 90, 90, Colon>>
    \o PayloadOf(ForeignVolumes[v][1])

InterleavedText(v, volumes) ==
  Join(<<ShortSegment>> \o Interleave(volumes, ForeignVolumes[v]) \o <<MismatchedVolume(v)>>,
       <<Newline>>)

ExtractInterleaved ==
  /\ pc = "sent"
  /\ sent.volumes # <<>>
  /\ pasted' = InterleavedText(variant, sent.volumes)
  /\ extracted' = extractChunks(variant, InterleavedText(variant, sent.volumes))
  /\ pc' = "extracted"
  /\ UNCHANGED <<variant, codecVars, senderVars, tamper, reads, persistentChunks, persistentMedia,
                 error, isReconstructing, pending, rebuilt>>

\* runs of characters a transport may leave in a payload: those of the
\* candidates that hold no symbol of the variant's alphabet
NoiseStrings(v) ==
  {n \in {<<Space>>, <<Newline>>, <<Colon>>, <<Space, Newline>>, <<CharG, CharC, Colon>>} :
     \A k \in 1..Len(n) : IndexOf(AlphabetOf(v), n[k]) = NoIndex}

\* the extractor on one produced volume with a run of noise inserted
\* somewhere in its payload region
ExtractNoisy ==
  /\ pc = "sent"
  /\ \E k \in 1..Len(sent.volumes) :
       \E pos \in (HeaderLength(sent.volumes[k]) + 1)..(Len(sent.volumes[k]) + 1) :
         \E n \in NoiseStrings(variant) :
           LET volume == sent.volumes[k]
               text == SubSeq(volume, 1, pos - 1) \o n \o SubSeq(volume, pos, Len(volume))
           IN /\ pasted' = text
              /\ tamper' = [volume |-> k, pos |-> pos, char |-> n[1]]
              /\ extracted' = extractChunks(variant, text)
  /\ pc' = "noisy"
  /\ UNCHANGED <<variant, codecVars, senderVars, persistentChunks, persistentMedia,
                 error, isReconstructing, pending, rebuilt, reads>>

\* header fields a volume may arrive with: each is <<type, total, index>>,
\* an empty field standing for the field as sent
Relabels ==
  { <<<<88>>, <<>>, <<>>>>,        \* type X
    <<<<86>>, <<>>, <<>>>>,        \* type V
    <<<<>>, <<57>>, <<>>>>,        \* total 9
    <<<<>>, <<>>, <<55>>>>,        \* index 7
    <<<<>>, <<120>>, <<45, 49>>>>  \* total x, index -1
  }

\* the extractor on one produced volume whose type, total or index field
\* was rewritten
ExtractRelabelled ==
  /\ pc = "sent"
  /\ \E k \in 1..Len(sent.volumes) :
       \E label \in Relabels :
         LET parts == Split(sent.volumes[k], <<Colon>>)
             field(j) == IF label[j] = <<>> THEN parts[j + 1] ELSE label[j]
             text == Join(<<parts[1], field(1), field(2), field(3)>>
                            \o SubSeq(parts, 5, Len(parts)), <<Colon>>)
         IN /\ text # sent.volumes[k]
            /\ pasted' = text
            /\ tamper' = [volume |-> k, pos |-> 0, char |-> 0]
            /\ extracted' = extractChunks(variant, text)
  /\ pc' = "relabelled"
  /\ UNCHANGED <<variant, codecVars, senderVars, persistentChunks, persistentMedia,
                 error, isReconstructing, pending, rebuilt, reads>>

NextExtract == Compile \/ ExtractInterleaved \/ ExtractNoisy \/ ExtractRelabelled

SpecExtract == InitChunk /\ [][NextExtract]_vars

\* A session in which a volume with an index out of range arrives among
\* the volumes of the transmission.
NextStray ==
  \/ Process
  \/ PasteVolume
  \/ PasteOutOfRange
  \/ Settle
  \/ ClearSyncBuffer
  \/ ClearMedia

SpecStray == Init /\ [][NextStray]_vars

\* A session in which the volumes arrive through the clipboard button: a
\* click starts navigator.clipboard.readText() in the handler of the
\* current render, and the handler goes on, with the persistentChunks that
\* render held, when the read settles.
MaxReads == 2

RemoveAt(xs, i) == SubSeq(xs, 1, i - 1) \o SubSeq(xs, i + 1, Len(xs))

\* the button is clicked: handleClipboardAuto / handlePaste runs to its await
ClickClipboard ==
  /\ pc = "sent"
  /\ ~persistentMedia.set
  /\ Len(reads) < MaxReads
  /\ reads' = Append(reads, persistentChunks)
  /\ UNCHANGED <<pc, variant, codecVars, senderVars, pasted, tamper, extracted,
                 persistentChunks, persistentMedia, error, isReconstructing, pending,
                 rebuilt>>

\* a read resolves with a volume or with the empty string
ClipboardResolves ==
  /\ pc = "sent"
  /\ \E i \in 1..Len(reads) :
       \E text \in {sent.volumes[k] : k \in 1..Len(sent.volumes)} \cup {<<>>} :
         LET st == IF text = <<>> /\ variant = "ts"
                     THEN [Receiver EXCEPT !.error = Err("Clipboard Buffer Empty", 0, 0)]
                     ELSE HandlePaste(variant, reads[i], Receiver, text)
         IN /\ Cardinality(st.pending) <= MaxPending
            /\ SetReceiver(st)
            /\ reads' = RemoveAt(reads, i)
  /\ UNCHANGED <<pc, variant, codecVars, senderVars, pasted, tamper, extracted>>

\* a read rejects
ClipboardDenied ==
  /\ pc = "sent"
  /\ \E i \in 1..Len(reads) : reads' = RemoveAt(reads, i)
  /\ error' = Err(IF variant = "ts" THEN "Clipboard access denied by OS."
                                     ELSE "Permission Blocked: Clipboard Access Required", 0, 0)
  /\ UNCHANGED <<pc, variant, codecVars, senderVars, pasted, tamper, extracted,
                 persistentChunks, persistentMedia, isReconstructing, pending, rebuilt>>

NextClipboard ==
  \/ Process
  \/ ClickClipboard
  \/ ClipboardResolves
  \/ ClipboardDenied
  \/ Settle
  \/ ClearSyncBuffer

SpecClipboard == Init /\ [][NextClipboard]_vars

\* The sending view next to a receiving view that is fed what the sending
\* view hands out: the media is compiled, the user copies or shares what
\* the view offers and pastes it on the other side.
SendBytes == {<<>>, <<7>>, <<7, 7, 7>>}

InitSend ==
  /\ pc = "input"
  /\ variant \in {"ts", "js"}
  /\ alphabet = AlphabetOf(variant)
  /\ data \in SendBytes
  /\ encoded = <<>> /\ decoded = <<>> /\ probe = 0 /\ fingerprint = <<>> /\ BufferIdle
  /\ mediaType \in MediaTypes
  /\ encodedText = <<>>
  /\ maxChars \in (HeaderOverhead(variant) + 1)..(HeaderOverhead(variant) + MaxEffective + 2)
  /\ sent = [threw |-> FALSE, volumes |-> <<>>]
  /\ copied = <<>>
  /\ ReceiverIdle

\* "Copy Buffer" / "Copy Packet": the first volume goes to the clipboard
CopyBuffer ==
  /\ pc = "sent"
  /\ sent.volumes # <<>>
  /\ copied' = sent.volumes[1]
  /\ UNCHANGED <<pc, variant, codecVars, mediaType, encodedText, maxChars, sent, receiverVars>>

\* the share button (components/EncodingView): navigator.share of the first volume
ShareBuffer ==
  /\ pc = "sent"
  /\ variant = "ts"
  /\ sent.volumes # <<>>
  /\ copied' = sent.volumes[1]
  /\ UNCHANGED <<pc, variant, codecVars, mediaType, encodedText, maxChars, sent, receiverVars>>

\* the receiving user pastes what the sending user sent
PasteCopied ==
  /\ copied # <<>>
  /\ Paste(copied)

NextSend ==
  \/ Process
  \/ ShareBuffer
  \/ CopyBuffer
  \/ PasteCopied
  \/ Settle

SpecSend == InitSend /\ [][NextSend]_vars

\* ENABLED <<PasteCopied>>_vars as a predicate of the current state: the
\* textarea is shown and pasting the clipboard changes the receiving view
PasteCopiedEnabled ==
  /\ pc = "sent"
  /\ ~persistentMedia.set
  /\ copied # <<>>
  /\ LET st == HandlePaste(variant, persistentChunks, Receiver, copied)
     IN Cardinality(st.pending) <= MaxPending /\ st # Receiver

\* WF_vars(PasteCopied), with its enabling condition written out
FairPaste == []<>(~PasteCopiedEnabled) \/ []<><<PasteCopied>>_vars

\* the sending user keeps copying and sharing what the view offers, the
\* receiving user keeps pasting it, and a started decompression settles
LiveSend ==
  /\ SpecSend
  /\ WF_vars(CopyBuffer) /\ WF_vars(ShareBuffer) /\ FairPaste /\ WF_vars(Settle)

\* the controls that discard the ChunkSet
Reset == ClearSyncBuffer \/ ClearMedia

\* the receiving view holds no fragment, shows no media and no error
Cleared == persistentChunks = <<>> /\ ~persistentMedia.set /\ error = NoError

(***************************************************************************)
(* Properties of the codec and the alphabet                                *)
(***************************************************************************)
\* C1: for every byte buffer b, decodeBase32768(encodeBase32768(b)) is
\* exactly b (empty, short, not 15-bit aligned, 16 zero bytes, any bytes)
C1_DecodeEncodeIsIdentity ==
  pc \in {"decoded", "volumes"} => decoded = data

C1_SixteenZeroBytesDecoded ==
  pc = "decoded" /\ data = ZeroBytes(16) /\ Len(decoded) = 16

\* C8: the generated alphabet has exactly 32768 entries, no symbol twice,
\* and the decode map is its inverse: index_of(symbol_of(i)) = i for every
\* index i, and index_of of a character outside the table is none
C8_AlphabetIsBijection ==
  /\ RangesLength(ALPHABET[alphabet]) = ALPHABET_SIZE
  /\ AlphabetLength(alphabet) = ALPHABET_SIZE
  /\ probe < ALPHABET_SIZE =>
       /\ SymbolOf(alphabet, probe) # NoIndex
       /\ IndexOf(alphabet, SymbolOf(alphabet, probe)) = probe
  /\ IndexOf(alphabet, probe) # NoIndex =>
       /\ IndexOf(alphabet, probe) \in 0..(ALPHABET_SIZE - 1)
       /\ SymbolOf(alphabet, IndexOf(alphabet, probe)) = probe

C8_LastIndexAndForeignCharProbed ==
  /\ alphabet = "v2"
  /\ probe = MaxCodeUnit
  /\ IndexOf(alphabet, probe) = NoIndex
  /\ IndexOf(alphabet, SymbolOf(alphabet, ALPHABET_SIZE - 1)) = ALPHABET_SIZE - 1

\* C9: ':' is not an alphabet symbol, so no output of encodeBase32768 and
\* no payload of createVolumes contains ':' or "GC:", and splitting a
\* volume on ':' yields the payload as one field (the sixth and last)
C9_DelimiterNeverInPayload ==
  /\ IndexOf(alphabet, Colon) = NoIndex
  /\ \A k \in 1..Len(encoded) : encoded[k] # Colon
  /\ Len(Split(encoded, GCPrefix)) = 1
  /\ pc = "volumes" =>
       \A k \in 1..Len(sent.volumes) :
         LET fields == Split(sent.volumes[k], <<Colon>>)
             payload == PayloadSlice(encoded, maxChars - HeaderOverhead(variant), k - 1)
         IN /\ Len(fields) = 6
            /\ fields[6] = payload
            /\ \A j \in 1..Len(payload) : payload[j] # Colon

C9_AsciiSymbolsInVolumes ==
  /\ pc = "volumes"
  /\ Len(sent.volumes) > 1
  /\ \E k \in 1..Len(encoded) : encoded[k] < 127

\* C10: encodeBase32768 never fails and returns exactly
\* ceil(8 * (L + 4) / 15) symbols for a buffer of L bytes, L = 0 included
C10_EncodedLength ==
  pc # "data" => Len(encoded) = CeilDiv(8 * (Len(data) + 4), 15)

C10_EmptyBufferEncoded ==
  pc = "encoded" /\ data = <<>> /\ Len(encoded) = 3

\* every byte the decoder's bit buffer yields for a string, header included
FullData(a, str) == DecLoop(DecIndices(a, str, 1), 1, Zero32, 0, <<>>)

\* the two 16-bit halves of the big-endian length header of decoded bytes
HeaderHigh(fullData) == fullData[1] * 256 + fullData[2]

HeaderLow(fullData) == fullData[3] * 256 + fullData[4]

\* C11 as stated: for every string that decodes to at least 4 bytes the
\* decoder returns exactly n bytes, n being the big-endian value of the
\* first 4 decoded bytes, and they are the decoded bytes 4 .. 4+n-1
C11_ExactlyHeaderManyBytes ==
  LET fullData == FullData(alphabet, encoded)
  IN (pc = "decoded" /\ Len(fullData) >= 4) =>
       /\ HeaderHigh(fullData) = 0
       /\ Len(decoded) = HeaderLow(fullData)
       /\ decoded = SubSeq(fullData, 5, 4 + HeaderLow(fullData))

\* the characters of a string that are alphabet symbols
Symbols(a, str) == SelectSeq(str, LAMBDA c : IndexOf(a, c) # NoIndex)

\* C12: the decoder skips characters that are not alphabet symbols: a
\* string with stray characters inserted anywhere decodes to the same bytes
\* as the string without them, and decoding never fails
C12_StrayCharactersSkipped ==
  pc = "decoded" => decoded = decodeBase32768(alphabet, Symbols(alphabet, encoded))

C12_StrayBetweenSymbolsDecoded ==
  /\ pc = "decoded"
  /\ Len(encoded) = 4
  /\ encoded[2] = Space
  /\ Len(Symbols(alphabet, encoded)) = 3
  /\ Len(decoded) = 1

IsUpperBase36(c) == (c >= 48 /\ c <= 57) \/ (c >= 65 /\ c <= 90)

\* abs(hash) of a string, as the loop with hash |= 0 computes it
Magnitude(str) == Abs32(HashLoop(str, 1, Zero32))

\* the number of base-36 digits of a magnitude, up to 4
Digits36(w) ==
  IF w[1] > 0 \/ w[2] >= 36 * 36 * 36 THEN 4
  ELSE IF w[2] >= 36 * 36 THEN 3
  ELSE IF w[2] >= 36 THEN 2
  ELSE 1

\* C13 as stated: for every input string, the empty string and one-character
\* strings included, the checksum is exactly 4 characters long and each is
\* an uppercase base-36 digit
C13_ExactlyFourDigits ==
  pc = "checksum" =>
    /\ Len(fingerprint) = 4
    /\ \A k \in 1..Len(fingerprint) : IsUpperBase36(fingerprint[k])

\* C13 amended: for every input string the checksum is 1 to 4 uppercase
\* base-36 digits: as many digits as abs(hash) has in base 36, cut to 4. It
\* has exactly 4 only when abs(hash) >= 36^3; the empty string gives "0".
C13_UpToFourDigits ==
  pc = "checksum" =>
    /\ Len(fingerprint) = Digits36(Magnitude(encoded))
    /\ \A k \in 1..Len(fingerprint) : IsUpperBase36(fingerprint[k])
    /\ encoded = <<>> => fingerprint = <<48>>

C13_OneCharacterThreeDigits ==
  /\ pc = "checksum"
  /\ encoded = <<19968>>
  /\ fingerprint = <<70, 69, 79>>

\* the reference: hash = hash * 31 + codepoint, wrapped to 32 bits signed
\* after every step
RECURSIVE ReferenceLoop(_, _, _)
ReferenceLoop(str, i, hash) ==
  IF i > Len(str) THEN hash
  ELSE ReferenceLoop(str, i + 1, ToInt32(ExactAdd(ExactTimes31(Exact(hash)), str[i])))

ReferenceChecksum(str) ==
  ToUpperCase(Substring(ToString36(Abs32(ReferenceLoop(str, 1, Zero32))), 0, 4))

\* C14: the checksum is the first 4 characters of the uppercase base-36
\* rendering of abs(hash), hash being the fold hash * 31 + codepoint with
\* 32-bit signed wraparound after every step; the loop with hash |= 0 and
\* the loop with hash = hash & hash both return this reference value
C14_BothLoopsMatchReference ==
  pc = "checksum" =>
    /\ fingerprint = ReferenceChecksum(encoded)
    /\ calculateChecksum(encoded) = ReferenceChecksum(encoded)
    /\ calculateChecksumChunker(encoded) = ReferenceChecksum(encoded)

C14_WrappedToNegative ==
  /\ pc = "checksum"
  /\ Len(encoded) = 5
  /\ IsNeg32(ReferenceLoop(encoded, 1, Zero32))
  /\ ReferenceLoop(encoded, 1, Zero32) = HashLoopAnd(encoded, 1, Zero32)
  /\ Len(fingerprint) = 4

(***************************************************************************)
(* Properties of the chunker and the extractor                             *)
(***************************************************************************)
\* C2: for every media type, non-empty symbol string s and max_chars that
\* createVolumes accepts, pasting the text of all produced volumes into an
\* empty receiving view extracts every volume and starts the reassembly
\* with the concatenated payload equal to s
C2_AllVolumesReassemble ==
  (pc = "pasted" /\ variant \in {"ts", "js"}) =>
    /\ Len(extracted) = Len(sent.volumes)
    /\ rebuilt.started
    /\ rebuilt.payload = encodedText

\* C5: every candidate an extractor returns carries the checksum of its
\* cleaned payload
C5_CandidatesMatchChecksum ==
  \A k \in 1..Len(extracted) :
    extracted[k].checksum = calculateChecksum(extracted[k].payload)

C7_VolumesPartitionInput ==
  (pc # "input" /\ maxChars > HeaderOverhead(variant)) =>
    LET size == maxChars - HeaderOverhead(variant)
    IN /\ ~sent.threw
       /\ Len(sent.volumes) * size >= Len(encodedText)
       /\ (Len(sent.volumes) - 1) * size < Len(encodedText) \/ Len(encodedText) = 0
       /\ Len(encodedText) = 0 => sent.volumes = <<>>
       /\ Concat([k \in 1..Len(sent.volumes) |-> PayloadOf(sent.volumes[k])]) = encodedText

C7_UnevenLastVolume ==
  /\ pc = "sent"
  /\ Len(encodedText) = 3
  /\ Len(sent.volumes) = 2
  /\ Len(PayloadOf(sent.volumes[2])) = 1

\* C15: every volume createVolumes returns, header included, has at most
\* maxChars characters, for every symbol string and every limit for which
\* createVolumes succeeds
C15_VolumesWithinLimit ==
  (pc = "sent" /\ ~sent.threw) =>
    \A k \in 1..Len(sent.volumes) : Len(sent.volumes[k]) <= maxChars

C15_TwoDigitHeaderWithinLimit ==
  /\ pc = "sent"
  /\ ~sent.threw
  /\ Len(sent.volumes) > 10
  /\ HeaderLength(sent.volumes[Len(sent.volumes)]) = 16
  /\ Len(sent.volumes[Len(sent.volumes)]) <= maxChars

\* C16: createVolumes fails, and returns no volume list, whenever maxChars
\* minus the header overhead is 0 or less; it never returns silently,
\* e.g. with an empty list, for such a limit
C16_TooSmallLimitFails ==
  (pc = "sent" /\ maxChars - HeaderOverhead(variant) <= 0) => sent.threw

\* C17: the overhead taken from maxChars is the exact length of the
\* header, so the limit 40 leaves a positive payload size and a symbol
\* string longer than it is cut into more than one volume
C17_OverheadIsHeaderLength ==
  /\ (pc = "sent" /\ ~sent.threw) =>
       \A k \in 1..Len(sent.volumes) :
          HeaderLength(sent.volumes[k]) = HeaderOverhead(variant)
  /\ (pc = "sent" /\ maxChars = SmallLimit /\ Len(encodedText) >= MaxLong) =>
       (~sent.threw /\ Len(sent.volumes) > 1)

(***************************************************************************)
(* Properties of the receiving view                                        *)
(***************************************************************************)
\* a chunk is a fragment of the session's own transmission
IsOwn(c) ==
  /\ c.type = <<mediaType>>
  /\ c.total = Len(sent.volumes)
  /\ c.index \in 0..(Len(sent.volumes) - 1)
  /\ c.payload = PayloadOf(sent.volumes[c.index + 1])

AllOwn(m) == \A k \in 1..Len(m) : IsOwn(m[k])

\* C3: for the fragments of one transmission the reassembly does not depend
\* on arrival order or on repetition: whenever the view holds exactly the
\* fragments of the transmission, however they were pasted, a reassembly
\* was started on them, and every reassembly started on fragments of the
\* transmission joins them in index order into the sender's symbol string,
\* which decodes and decompresses to the sender's bytes
C3_ReassemblyIndependentOfOrder ==
  /\ (pc = "sent" /\ sent.volumes # <<>> /\ AllOwn(persistentChunks)
        /\ Len(persistentChunks) = Len(sent.volumes)) =>
       (rebuilt.started /\ rebuilt.entries = persistentChunks)
  /\ (rebuilt.started /\ AllOwn(rebuilt.entries)) =>
       /\ rebuilt.indices = [k \in 1..Len(sent.volumes) |-> k - 1]
       /\ rebuilt.payload = encodedText
       /\ decompressBytes(decodeBase32768(alphabet, rebuilt.payload))
            = [ok |-> TRUE, raw |-> data]

C3_ReverseArrivalReassembled ==
  /\ rebuilt.started
  /\ AllOwn(rebuilt.entries)
  /\ Len(rebuilt.entries) = 3
  /\ MapKeys(rebuilt.entries) = <<2, 1, 0>>
  /\ persistentMedia = [type |-> <<mediaType>>, raw |-> data, set |-> TRUE]

\* C4: in every reachable state of the receiving view a reassembly is
\* started only when the indices present are exactly 0 .. total-1
C4_RebuildOnlyWhenComplete ==
  rebuilt.started =>
    {rebuilt.indices[k] : k \in 1..Len(rebuilt.indices)} = 0..(rebuilt.total - 1)

\* C18: in every reachable state of the receiving view every key k of the
\* ChunkSet satisfies 0 <= k < total for the total its entry declares, and
\* the ChunkSet holds no more than total entries: a candidate with a valid
\* checksum and an index outside 0 .. total-1 is not inserted
C18_KeysWithinTotal ==
  \A k \in 1..Len(persistentChunks) :
     /\ persistentChunks[k].index >= 0
     /\ persistentChunks[k].index < persistentChunks[k].total
     /\ Len(persistentChunks) <= persistentChunks[k].total

\* C19: all the entries the ChunkSet holds at any time declare the same
\* total and the same type (a candidate that disagrees with the accepted
\* entries is not merged), so no reassembly joins fragments of two
\* transmissions
C19_OneTotalAndType ==
  /\ \A j, k \in 1..Len(persistentChunks) :
        /\ persistentChunks[j].total = persistentChunks[k].total
        /\ persistentChunks[j].type = persistentChunks[k].type
  /\ rebuilt.started =>
        \A j, k \in 1..Len(rebuilt.entries) :
           /\ rebuilt.entries[j].total = rebuilt.entries[k].total
           /\ rebuilt.entries[j].type = rebuilt.entries[k].type

\* C20: the receiving view offers a control that resets it in every state
\* in which it holds fragments, media or an error (closing the error line
\* counts when that is all there is to reset), and a reset always leaves
\* it idle: no fragment, no media, no error, whatever was pasted before
C20_ResetAlwaysOfferedAndClears ==
  /\ []((pc = "sent" /\ ~Cleared) => ENABLED (Reset \/ DismissError))
  /\ [][Reset => Cleared']_vars

\* the messages of a failed reconstruction, by variant
IntegrityErrors ==
  {"Checksum Failed: Integrity Error.", "Data Mismatch: Check Integrity", "Corruption Detected"}

\* C21: when the decompression of a reassembly the view started fails, the
\* view ends that step showing an integrity error, which is neither "no
\* error" nor the "Syncing" status, and the step produces no media: the
\* media shown is the one shown before, so no media is ever built from a
\* failed reconstruction
C21_FailedRebuildEndsInError ==
  [][\A job \in pending :
       (pending' = pending \ {job} /\ ~decompressBytes(job.compressed).ok) =>
          /\ error'.kind \in IntegrityErrors
          /\ persistentMedia' = persistentMedia]_vars

C21_IntegrityErrorShown ==
  /\ pc = "sent"
  /\ rebuilt.started
  /\ ~decompressBytes(decodeBase32768(alphabet, rebuilt.payload)).ok
  /\ pending = {}
  /\ error.kind \in IntegrityErrors
  /\ ~persistentMedia.set

\* C22: a paste that holds no valid fragment leaves the ChunkSet, the media
\* and the error of the view as they were, and the view starts showing an
\* error only when the decompression of a reassembly fails
C22_BadPasteChangesNothing ==
  /\ [][PasteGarbage =>
          /\ persistentChunks' = persistentChunks
          /\ persistentMedia' = persistentMedia
          /\ error' = error]_vars
  /\ [][(error' # error /\ error'.kind \notin {"none", "Syncing"}) =>
          \E job \in pending :
             pending' = pending \ {job} /\ ~decompressBytes(job.compressed).ok]_vars

\* the fragment a volume of n volumes of the given type stands for
FragmentOf(type, volumes, k) ==
  [type |-> <<type>>, total |-> Len(volumes), index |-> k - 1,
   checksum |-> calculateChecksum(PayloadOf(volumes[k])),
   payload |-> PayloadOf(volumes[k])]

FragmentsOf(type, volumes) == [k \in 1..Len(volumes) |-> FragmentOf(type, volumes, k)]

\* C23: extraction skips and continues, segment by segment: from a text in
\* which the volumes of two transmissions alternate between a segment of
\* fewer than 5 fields and a volume with a wrong checksum, the extractor
\* returns exactly the valid volumes' fragments in order of appearance,
\* each with its own type, total and index
C23_AllValidSegmentsInOrder ==
  (pc = "extracted" /\ variant \in {"ts", "js"}) =>
    extracted = Interleave(FragmentsOf(mediaType, sent.volumes),
                           FragmentsOf(65, ForeignVolumes[variant]))

\* the alphabets of the repository: services/encoding, index.js first and
\* second bundle
Alphabets == {"cjk", "v1", "v2"}

\* C24: every encoder and every decoder of the repository use the same
\* table: the symbol any encoder emits for an index is read back as that
\* index by every decoder
C24_OneTableEverywhere ==
  probe < ALPHABET_SIZE =>
    \A a, b \in Alphabets : IndexOf(b, SymbolOf(a, probe)) = probe

\* the colon-delimited fields of a volume: "GC", type, total, index,
\* checksum, payload
FieldsOf(volume) == Split(volume, <<Colon>>)

\* C25: the volumes createVolumes returns form one transmission: the i-th
\* string (from 0) carries index i, every string carries the type given
\* and a total equal to the number of strings, and the checksum field of
\* each string is the checksum of its own payload
C25_VolumesAreOneTransmission ==
  (pc = "sent" /\ ~sent.threw) =>
    \A k \in 1..Len(sent.volumes) :
       LET parts == FieldsOf(sent.volumes[k])
       IN /\ Len(parts) = 6
          /\ parts[1] = <<CharG, CharC>>
          /\ parts[2] = <<mediaType>>
          /\ parts[3] = DecimalDigits(Len(sent.volumes))
          /\ parts[4] = DecimalDigits(k - 1)
          /\ parts[5] = calculateChecksum(parts[6])
          /\ parts[6] = PayloadSlice(encodedText, maxChars - HeaderOverhead(variant), k - 1)

C25_ElevenVolumesNumbered ==
  /\ pc = "sent"
  /\ Len(sent.volumes) = 11
  /\ FieldsOf(sent.volumes[11])[3] = <<49, 49>>
  /\ FieldsOf(sent.volumes[11])[4] = <<49, 48>>

\* C26: the extractor cleans the payload before it validates it: a valid
\* volume with any run of characters that are not alphabet symbols
\* inserted anywhere in its payload region is still accepted, and the
\* fragment returned carries the original payload
C26_NoiseInPayloadIgnored ==
  (pc = "noisy" /\ variant \in {"ts", "js"}) =>
    extracted = <<FragmentOf(mediaType, sent.volumes, tamper.volume)>>

KeysOf(m) == {m[k].index : k \in 1..Len(m)}

\* C27: between two resets the ChunkSet only grows: an index once inserted
\* stays present until a reset, also when clipboard reads are in flight
\* and complete with different fragments
C27_ChunkSetOnlyGrows ==
  [][Reset \/ KeysOf(persistentChunks) \subseteq KeysOf(persistentChunks')]_vars

\* C28: whether the extractor accepts a segment depends on its checksum
\* field and its payload only: a volume whose type, total or index field
\* was rewritten is returned exactly when the volume as sent is returned,
\* and it is returned with the rewritten fields and the payload as sent
C28_HeaderFieldsUnchecked ==
  (pc = "relabelled" /\ variant \in {"ts", "js"}) =>
    LET original == sent.volumes[tamper.volume]
        parts == FieldsOf(pasted)
    IN extracted =
         IF extractChunks(variant, original) = <<>> THEN <<>>
         ELSE << [type |-> parts[2], total |-> parseInt(parts[3]),
                  index |-> parseInt(parts[4]), checksum |-> FieldsOf(original)[5],
                  payload |-> PayloadOf(original)] >>

C28_RewrittenIndexAccepted ==
  /\ pc = "relabelled"
  /\ variant = "ts"
  /\ Len(sent.volumes) = 2
  /\ Len(extracted) = 1
  /\ extracted[1].index = 7
  /\ extracted[1].total = 2
  /\ extracted[1].payload = PayloadOf(sent.volumes[tamper.volume])

\* C29: every volume of a transmission of more than one volume can be
\* handed to the user by a copy or share action, so a receiving view fed
\* everything the sending view hands out eventually shows the media
C29_EveryVolumeReachesReceiver ==
  (pc = "sent" /\ Len(sent.volumes) > 1) ~> persistentMedia.set

\* the bits of the first n values of seq, each of them width bits wide,
\* most significant bit first: the contents of a buffer of unbounded width
\* after n values were shifted in
BitString(seq, n, width) ==
  [k \in 1..(n * width) |->
     (seq[((k - 1) \div width) + 1] \div 2^(width - 1 - ((k - 1) % width))) % 2]

\* the number written by the n bits from position from on, a bit past the
\* end of the string being zero
RECURSIVE ValueOf(_, _, _)
ValueOf(bits, from, n) ==
  IF n = 0 THEN 0
  ELSE 2 * ValueOf(bits, from, n - 1)
         + (IF from + n - 1 <= Len(bits) THEN bits[from + n - 1] ELSE 0)

\* the first count values of out bits each that leave the unbounded buffer
WideGroups(bits, out, count) == [g \in 1..count |-> ValueOf(bits, (g - 1) * out + 1, out)]

WideSymbols(bits, count) ==
  LET groups == WideGroups(bits, 15, count)
  IN [g \in 1..count |-> SymbolOf(alphabet, groups[g])]

\* C30: the 32-bit bit buffer never loses a live bit: in the encoder
\* bitsInBuffer is at most 22 before the inner loop and in 0..14 after it,
\* in the decoder at most 22 before and in 0..7 after, and every index and
\* byte taken out is the one a buffer of unbounded width yields
C30_BitBufferLosesNoLiveBits ==
  /\ pc = "enc.shifted" => bitsInBuffer \in 8..22
  /\ pc = "enc.next" =>
       /\ bitsInBuffer \in 0..14
       /\ encoded = WideSymbols(BitString(Combined, cursor, 8), (8 * cursor) \div 15)
  /\ pc = "dec.shifted" => bitsInBuffer \in 15..22
  /\ pc = "dec.next" =>
       /\ bitsInBuffer \in 0..7
       /\ encoded = WideSymbols(BitString(Combined, Len(Combined), 8),
                                (8 * Len(Combined) + 14) \div 15)
       /\ encoded = encodeBase32768(alphabet, data)
       /\ decoded = WideGroups(BitString(Indices, cursor, 15), 8, (15 * cursor) \div 8)
  /\ pc = "dec.done" => decoded = decodeBase32768(alphabet, encoded)

\* the encoder holds 22 live bits in a buffer whose older bits reach the sign bit
C30_FullBufferOverflowed ==
  /\ pc = "enc.shifted"
  /\ bitsInBuffer = 22
  /\ cursor > 4
  /\ buffer[1] >= H15

====
